---- MODULE Spec2Model ----
(***************************************************************************)
(* Model of the two batch pipelines of the repository:                     *)
(*   - RollingPriceStdevCalculator (stdev_test/scripts/calc_rolling_stdev) *)
(*     compute_all = _preprocess, _expand_to_full_grid, then per security  *)
(*     _rolling_stdev_with_deques, then concat;                            *)
(*   - PriceConverter (rates_test/scripts/convert_price), row by row.      *)
(*                                                                         *)
(* Time is counted in half hours, so that an observation can fall between  *)
(* two instants of the hourly calendar.  Prices are positive integers      *)
(* (ticks); a missing float (NaN), a missing timestamp (NaT) is NaN.       *)
(* A standard deviation is kept in fixed point, in units of 1/Scale.       *)
(***************************************************************************)
EXTENDS Integers, Sequences, FiniteSets, TLC

VARIABLES
    pc,          \* position of the run
    price_df,    \* self.price_df: sequence of observation rows
    start,       \* compute_all(start, ...)
    end,         \* compute_all(..., end, ...)
    window,      \* window / window_size
    full,        \* the expanded table returned by _expand_to_full_grid
    todo,        \* groups of `full` still to be visited by compute_all's loop
    g,           \* group_df handed to _rolling_stdev_with_deques
    i,           \* loop index of _rolling_stdev_with_deques
    dq,          \* dq: one deque of values per column
    dqSlots,     \* history: the slot each deque entry was read from
    arrs,        \* history: per column and slot, the array a statistic was computed from
    outputs,     \* outputs: one array of statistics per column
    out,         \* out_df returned by _rolling_stdev_with_deques
    results,     \* compute_all's list of merged frames
    result_df,   \* self.result_df
    err,         \* the exception that left compute_all, if any
    statsDone,   \* history: number of loop iterations of the engine executed so far
    crow,        \* PriceConverter: the row followed through the pipeline
    ccy_df,      \* PriceConverter.ccy_df
    spot_rate_df \* PriceConverter.spot_rate_df

vars == <<pc, price_df, start, end, window, full, todo, g, i, dq, dqSlots, arrs,
          outputs, out, results, result_df, err, statsDone, crow, ccy_df, spot_rate_df>>

stdevVars == <<price_df, start, end, window, full, todo, g, i, dq, dqSlots, arrs,
               outputs, out, results, result_df, err, statsDone>>
convVars == <<crow, ccy_df, spot_rate_df>>

----------------------------------------------------------------------------
(* Bounds of the model *)

MaxSlots == 4      \* longest group handed directly to the engine
MaxWindow == 3     \* largest window size tried
MaxEnd == 4        \* latest instant (half hours) of a range or an observation

(* Program constants *)

NaN == -1                      \* np.nan / NaT: a missing value
Hour == 2                      \* freq="h", in half hours
DefaultWindow == 20            \* window=20
Scale == 10 * 10 * 10          \* fixed point: statistics are in 1/Scale

Cols == <<"bid", "mid", "ask">>
ColSet == {"bid", "mid", "ask"}

Min(a, b) == IF a < b THEN a ELSE b

----------------------------------------------------------------------------
(* Arithmetic of the statistic: lines 77-81 *)

RECURSIVE SumSeq(_)
SumSeq(s) == IF s = <<>> THEN 0 ELSE Head(s) + SumSeq(Tail(s))

RECURSIVE SumSqSeq(_)
SumSqSeq(s) == IF s = <<>> THEN 0 ELSE Head(s) * Head(s) + SumSqSeq(Tail(s))

\* floor of the square root, by bisection on lo..hi (lo*lo <= x < (hi+1)*(hi+1))
RECURSIVE SqrtBetween(_, _, _)
SqrtBetween(x, lo, hi) ==
    IF lo >= hi THEN lo
    ELSE LET m == (lo + hi + 1) \div 2
         IN IF m * m <= x THEN SqrtBetween(x, m, hi) ELSE SqrtBetween(x, lo, m - 1)

ISqrt(x) == SqrtBetween(x, 0, Min(x, 46340))

\* n^2 times the population variance: n * sum(x^2) - sum(x)^2 = n * sum((x - mu)^2)
SqDevTimesN(arr) == Len(arr) * SumSqSeq(arr) - SumSeq(arr) * SumSeq(arr)

\* stdev < eps (1e-8): for integer ticks sqrt(sq)/n is 0 or at least 1/n, so
\* the branch is taken exactly when the deviations are all zero
BelowEps(sq, n) == sq = 0

\* mu = arr.mean(); var = ((arr - mu) ** 2).mean(); stdev = sqrt(var);
\* 0.0 if stdev < eps else stdev
Stdev(arr) ==
    LET n == Len(arr)
        sq == SqDevTimesN(arr)
    IN IF BelowEps(sq, n) THEN 0 ELSE ISqrt((sq * Scale * Scale) \div (n * n))

----------------------------------------------------------------------------
(* The deque update of one column: lines 85-89 *)

UpdateDequeNoEvict(d, v, w) == IF v # NaN THEN Append(d, v) ELSE d

UpdateDequeKeepNaN(d, v, w) ==
    LET a == Append(d, v) IN IF Len(a) > w THEN Tail(a) ELSE a

UpdateDeque(d, v, w) ==
    IF v # NaN
    THEN LET a == Append(d, v) IN IF Len(a) > w THEN Tail(a) ELSE a
    ELSE d

\* the test of line 76
WindowFullOffByOne(d, w) == Len(d) >= w - 1

WindowFull(d, w) == Len(d) >= w

\* dq = {c: deque() for c in cols}: a fresh deque per call (line 69)
FreshDequesCarried(old) == old

FreshDeques(old) == [c \in ColSet |-> <<>>]

----------------------------------------------------------------------------
(* Tables: a table is a sequence of rows, a row a record *)

RECURSIVE Flatten(_)
Flatten(ss) == IF ss = <<>> THEN <<>> ELSE Head(ss) \o Flatten(Tail(ss))

RowBefore(r1, r2) ==
    \/ r1.security_id < r2.security_id
    \/ r1.security_id = r2.security_id /\ r1.snap_time < r2.snap_time

RECURSIVE InsertRow(_, _)
InsertRow(r, s) ==
    IF s = <<>> THEN <<r>>
    ELSE IF RowBefore(r, Head(s)) THEN <<r>> \o s
         ELSE <<Head(s)>> \o InsertRow(r, Tail(s))

\* sort_values(['security_id', 'snap_time']) (the keys are unique)
RECURSIVE SortRows(_)
SortRows(s) == IF s = <<>> THEN <<>> ELSE InsertRow(Head(s), SortRows(Tail(s)))

\* the group keys of groupby('security_id', sort=False): order of first appearance
RECURSIVE GroupKeys(_)
GroupKeys(s) ==
    IF s = <<>> THEN <<>>
    ELSE LET k == Head(s).security_id
             rest == GroupKeys(Tail(s))
         IN <<k>> \o SelectSeq(rest, LAMBDA x : x # k)

GroupRows(s, k) == SelectSeq(s, LAMBDA r : r.security_id = k)

\* a range given backwards put in order, in place of an empty index
HourlyIndexSwapped(s, e) ==
    LET lo == Min(s, e)
        hi == IF s < e THEN e ELSE s
    IN [k \in 1..((hi - lo) \div Hour + 1) |-> lo + (k - 1) * Hour]

\* pd.date_range(start, end, freq="h"): start, start + 1h, ... not after end
HourlyIndexExclusive(s, e) ==
    IF e <= s THEN <<>> ELSE [k \in 1..((e - s - 1) \div Hour + 1) |-> s + (k - 1) * Hour]

HourlyIndex(s, e) ==
    IF e < s THEN <<>> ELSE [k \in 1..((e - s) \div Hour + 1) |-> s + (k - 1) * Hour]

\* the row of a group at instant t after reindex: the observation at exactly t,
\* or a row of missing values
ReindexRowNearest(grp, sec, t) ==
    IF \E k \in 1..Len(grp) : grp[k].snap_time <= t
    THEN LET k == CHOOSE k \in 1..Len(grp) :
                     /\ grp[k].snap_time <= t
                     /\ \A j \in 1..Len(grp) :
                            grp[j].snap_time <= t => grp[j].snap_time <= grp[k].snap_time
         IN [grp[k] EXCEPT !.snap_time = t]
    ELSE [security_id |-> sec, snap_time |-> t, bid |-> NaN, mid |-> NaN, ask |-> NaN]

ReindexRow(grp, sec, t) ==
    IF \E k \in 1..Len(grp) : grp[k].snap_time = t
    THEN grp[CHOOSE k \in 1..Len(grp) : grp[k].snap_time = t]
    ELSE [security_id |-> sec, snap_time |-> t, bid |-> NaN, mid |-> NaN, ask |-> NaN]

\* lines 49-53 for one group
ExpandGroup(df, sec, idx) ==
    [k \in 1..Len(idx) |-> ReindexRow(GroupRows(df, sec), sec, idx[k])]

\* lines 47-56: the frames of all groups, concatenated
ExpandAll(df, idx) ==
    LET keys == GroupKeys(df)
    IN Flatten([n \in 1..Len(keys) |-> ExpandGroup(df, keys[n], idx)])

----------------------------------------------------------------------------
(* compute_all *)

NoResult == [set |-> FALSE, rows |-> <<>>]
NoDeques == [c \in ColSet |-> <<>>]

\* self._preprocess(): lines 34-38, called at line 103
Preprocess ==
    /\ pc = "call"
    /\ price_df' = SortRows(price_df)
    /\ pc' = "expand"
    /\ UNCHANGED <<start, end, window, full, todo, g, i, dq, dqSlots, arrs, outputs,
                   out, results, result_df, err, statsDone, convVars>>

\* full = self._expand_to_full_grid(start, end): lines 40-56, called at line 105;
\* pd.concat of an empty list raises ValueError
Expand ==
    /\ pc = "expand"
    /\ \/ /\ price_df # <<>>
          /\ full' = ExpandAll(price_df, HourlyIndex(start, end))
          /\ todo' = GroupKeys(full')
          /\ pc' = "groups"
          /\ err' = err
       \/ /\ price_df = <<>>
          /\ err' = "ValueError"
          /\ pc' = "raised"
          /\ UNCHANGED <<full, todo>>
    /\ UNCHANGED <<price_df, start, end, window, g, i, dq, dqSlots, arrs, outputs,
                   out, results, result_df, statsDone, convVars>>

\* the head of the loop of line 109, and line 110
GroupNext ==
    /\ pc = "groups"
    /\ todo # <<>>
    /\ g' = SortRows(GroupRows(full, Head(todo)))
    /\ todo' = Tail(todo)
    /\ pc' = "enter"
    /\ UNCHANGED <<price_df, start, end, window, full, i, dq, dqSlots, arrs, outputs,
                   out, results, result_df, err, statsDone, convVars>>

\* _rolling_stdev_with_deques, lines 65-70
RollEnter ==
    /\ pc = "enter"
    /\ i' = 0
    /\ outputs' = [c \in ColSet |-> [k \in 1..Len(g) |-> NaN]]
    /\ dq' = FreshDeques(dq)
    /\ dqSlots' = FreshDeques(dqSlots)
    /\ arrs' = [c \in ColSet |-> [k \in 1..Len(g) |-> <<>>]]
    /\ pc' = "roll"
    /\ UNCHANGED <<price_df, start, end, window, full, todo, g, out, results,
                   result_df, err, statsDone, convVars>>

\* one iteration of the loop of line 72: lines 73-89 (slot i is g[i + 1])
RollStep ==
    /\ pc = "roll"
    /\ i < Len(g)
    /\ outputs' = [c \in ColSet |->
                      IF WindowFull(dq[c], window)
                      THEN [outputs[c] EXCEPT ![i + 1] = Stdev(dq[c])]
                      ELSE outputs[c]]
    /\ arrs' = [c \in ColSet |->
                   IF WindowFull(dq[c], window)
                   THEN [arrs[c] EXCEPT ![i + 1] = dq[c]]
                   ELSE arrs[c]]
    /\ dq' = [c \in ColSet |-> UpdateDeque(dq[c], g[i + 1][c], window)]
    /\ dqSlots' = [c \in ColSet |->
                      UpdateDeque(dqSlots[c], IF g[i + 1][c] # NaN THEN i ELSE NaN, window)]
    /\ i' = i + 1
    /\ statsDone' = statsDone + 1
    /\ UNCHANGED <<pc, price_df, start, end, window, full, todo, g, out, results,
                   result_df, err, convVars>>

\* lines 91-94
RollReturn ==
    /\ pc = "roll"
    /\ i = Len(g)
    /\ out' = [k \in 1..Len(g) |->
                  [security_id |-> g[k].security_id, snap_time |-> g[k].snap_time,
                   bid_stdev |-> outputs["bid"][k], mid_stdev |-> outputs["mid"][k],
                   ask_stdev |-> outputs["ask"][k]]]
    /\ pc' = "merge"
    /\ UNCHANGED <<price_df, start, end, window, full, todo, g, i, dq, dqSlots, arrs,
                   outputs, results, result_df, err, statsDone, convVars>>

\* g.merge(out, on=['security_id', 'snap_time'], how='left') for one row of g
MergeRow(r, o) ==
    LET m == CHOOSE k \in 1..Len(o) :
                 o[k].security_id = r.security_id /\ o[k].snap_time = r.snap_time
    IN [security_id |-> r.security_id, snap_time |-> r.snap_time,
        bid |-> r.bid, mid |-> r.mid, ask |-> r.ask,
        bid_stdev |-> o[m].bid_stdev, mid_stdev |-> o[m].mid_stdev,
        ask_stdev |-> o[m].ask_stdev]

\* results.append(g.merge(out, ...)): lines 114-116
Merge ==
    /\ pc = "merge"
    /\ results' = Append(results, [k \in 1..Len(g) |-> MergeRow(g[k], out)])
    /\ pc' = "groups"
    /\ UNCHANGED <<price_df, start, end, window, full, todo, g, i, dq, dqSlots, arrs,
                   outputs, out, result_df, err, statsDone, convVars>>

\* self.result_df = pd.concat(results, ignore_index=True): line 118;
\* pd.concat of an empty list raises ValueError
Concat ==
    /\ pc = "groups"
    /\ todo = <<>>
    /\ \/ /\ results # <<>>
          /\ result_df' = [set |-> TRUE, rows |-> Flatten(results)]
          /\ pc' = "done"
          /\ err' = err
       \/ /\ results = <<>>
          /\ err' = "ValueError"
          /\ pc' = "raised"
          /\ result_df' = result_df
    /\ UNCHANGED <<price_df, start, end, window, full, g, todo, i, dq, dqSlots, arrs,
                   outputs, out, results, statsDone, convVars>>

----------------------------------------------------------------------------
(* Inputs *)

Entities == {1, 2}

\* the quote of series s observed at instant t; a field of a quote may be missing
QuoteOf(s, t) ==
    [bid |-> s + t,
     mid |-> s * (t + 1),
     ask |-> IF t \div Hour = 1 THEN NaN ELSE s + 2 * t]

ObsRow(sec, s, t) ==
    [security_id |-> sec, snap_time |-> t,
     bid |-> QuoteOf(s, t).bid, mid |-> QuoteOf(s, t).mid, ask |-> QuoteOf(s, t).ask]

\* the rows of a table, by snap_time then security_id (not the order _preprocess wants)
RECURSIVE ByTime(_)
ByTime(S) ==
    IF S = {} THEN <<>>
    ELSE LET r == CHOOSE r \in S : \A q \in S :
                      \/ r.snap_time < q.snap_time
                      \/ r.snap_time = q.snap_time /\ r.security_id <= q.security_id
         IN <<r>> \o ByTime(S \ {r})

Reverse(s) == [k \in 1..Len(s) |-> s[Len(s) + 1 - k]]

\* the observations of the second security, relative to those of the first
OtherObs(sec, mask, how) ==
    CASE how = "absent" -> {}
      [] how = "same" -> {ObsRow(sec, 1, t) : t \in mask}
      [] how = "full" -> {ObsRow(sec, 2, t) : t \in 0..MaxEnd}
      [] how = "complement" -> {ObsRow(sec, 2, t) : t \in (0..MaxEnd) \ mask}

InputTables ==
    UNION { UNION { { ByTime({ObsRow(a, 1, t) : t \in mask} \cup OtherObs(3 - a, mask, how)),
                      Reverse(ByTime({ObsRow(a, 1, t) : t \in mask}
                                         \cup OtherObs(3 - a, mask, how))) }
                    : how \in {"absent", "same", "full", "complement"} }
            : <<a, mask>> \in Entities \X SUBSET (0..MaxEnd) }

\* rows handed directly to the engine: every pattern of validity of one column
\* against another, two distinct valid values per column
SampleQuotes ==
    { <<1, 1, 1>>, <<3, 1, NaN>>, <<NaN, 3, 1>>, <<NaN, NaN, NaN>>, <<1, NaN, 3>>, <<3, 3, 3>> }

GridOf(qs) ==
    [k \in 1..Len(qs) |->
        [security_id |-> 1, snap_time |-> (k - 1) * Hour,
         bid |-> qs[k][1], mid |-> qs[k][2], ask |-> qs[k][3]]]

SampleGroups ==
    UNION { { GridOf(qs) : qs \in [1..n -> SampleQuotes] } : n \in 0..MaxSlots }

\* 25 hourly slots (five more than the default window), every column constant 5,
\* with at most one slot missing (miss = 25: none)
ScenarioSlots == DefaultWindow + 5

ScenarioGroup(miss) ==
    [k \in 1..ScenarioSlots |->
        [security_id |-> 1, snap_time |-> (k - 1) * Hour,
         bid |-> 5,
         mid |-> IF k - 1 = miss THEN NaN ELSE 5,
         ask |-> NaN]]

NoConv == [stage |-> "none"]

----------------------------------------------------------------------------
(* Specifications *)

\* compute_all(start, end, window_size) on a loaded calculator
Init ==
    /\ pc = "call"
    /\ price_df \in InputTables
    /\ start \in 0..1
    /\ end \in 0..MaxEnd
    /\ window \in 1..MaxWindow
    /\ full = <<>> /\ todo = <<>> /\ g = <<>> /\ i = 0
    /\ dq = NoDeques /\ dqSlots = NoDeques /\ arrs = NoDeques /\ outputs = NoDeques
    /\ out = <<>> /\ results = <<>> /\ result_df = NoResult
    /\ err = "none" /\ statsDone = 0
    /\ crow = NoConv /\ ccy_df = NoConv /\ spot_rate_df = {}

Next ==
    \/ Preprocess
    \/ Expand
    \/ GroupNext
    \/ RollEnter
    \/ RollStep
    \/ RollReturn
    \/ Merge
    \/ Concat

Spec == Init /\ [][Next]_vars

\* _rolling_stdev_with_deques(group_df, cols, window) called on a gridded group
InitEngine ==
    /\ pc = "enter"
    /\ g \in SampleGroups
    /\ window \in 1..MaxWindow
    /\ price_df = <<>> /\ start = 0 /\ end = 0
    /\ full = <<>> /\ todo = <<>> /\ i = 0
    /\ dq = NoDeques /\ dqSlots = NoDeques /\ arrs = NoDeques /\ outputs = NoDeques
    /\ out = <<>> /\ results = <<>> /\ result_df = NoResult
    /\ err = "none" /\ statsDone = 0
    /\ crow = NoConv /\ ccy_df = NoConv /\ spot_rate_df = {}

NextEngine ==
    \/ RollEnter
    \/ RollStep
    \/ RollReturn

SpecEngine == InitEngine /\ [][NextEngine]_vars

\* the same call on the 25-slot scenarios with the default window
InitScenario ==
    /\ pc = "enter"
    /\ \E miss \in 0..ScenarioSlots : g = ScenarioGroup(miss)
    /\ window = DefaultWindow
    /\ price_df = <<>> /\ start = 0 /\ end = 0
    /\ full = <<>> /\ todo = <<>> /\ i = 0
    /\ dq = NoDeques /\ dqSlots = NoDeques /\ arrs = NoDeques /\ outputs = NoDeques
    /\ out = <<>> /\ results = <<>> /\ result_df = NoResult
    /\ err = "none" /\ statsDone = 0
    /\ crow = NoConv /\ ccy_df = NoConv /\ spot_rate_df = {}

SpecScenario == InitScenario /\ [][NextEngine]_vars

----------------------------------------------------------------------------
(* Vocabulary of the properties of the engine *)

InEngine == pc \in {"roll", "merge"}

\* the values of column c at slots 0..j-1 of the group, and the valid ones among them
Column(c, j) == [k \in 1..j |-> g[k][c]]
ValidValues(c, j) == SelectSeq(Column(c, j), LAMBDA v : v # NaN)

LastN(s, n) == IF Len(s) <= n THEN s ELSE SubSeq(s, Len(s) - n + 1, Len(s))

\* the slots strictly before slot j end in a run of `window` valid values of column c
RunBefore(c, j) ==
    /\ j >= window
    /\ \A k \in (j - window)..(j - 1) : g[k + 1][c] # NaN

\* the values of column c at slots j-window .. j-1
WindowBefore(c, j) == [k \in 1..window |-> g[j - window + k][c]]

\* C1: a slot whose preceding slots do not end in a run of window_size valid
\* values of a column has a missing statistic for that column
C1_MissingWithoutRun ==
    InEngine =>
        \A c \in ColSet : \A j \in 0..(i - 1) :
            ~RunBefore(c, j) => outputs[c][j + 1] = NaN

\* C2: every emitted statistic is the population standard deviation of exactly
\* the values of the window_size slots immediately before the slot, all valid
C2_StatOfPrecedingWindow ==
    InEngine =>
        \A c \in ColSet : \A j \in 0..(i - 1) :
            outputs[c][j + 1] # NaN =>
                /\ RunBefore(c, j)
                /\ arrs[c][j + 1] = WindowBefore(c, j)
                /\ outputs[c][j + 1] = Stdev(WindowBefore(c, j))

\* C3: adjacent entries of a buffer come from slots exactly one step apart
C3_BufferContiguous ==
    InEngine =>
        \A c \in ColSet : \A k \in 1..(Len(dqSlots[c]) - 1) :
            dqSlots[c][k + 1] = dqSlots[c][k] + 1

\* C4 as stated: in Scenario A (25 valid slots, constant 5, window 20) mid_stdev is
\* missing at slots 0..18 and 0.0 at slots 19..24
C4_ScenarioA_AsStated ==
    (pc = "merge" /\ g = ScenarioGroup(ScenarioSlots)) =>
        /\ \A j \in 0..18 : out[j + 1].mid_stdev = NaN
        /\ \A j \in 19..24 : out[j + 1].mid_stdev = 0

\* C4 amended: in Scenario A mid_stdev is missing at slots 0..19 and 0.0 at
\* slots 20..24
C4_ScenarioA ==
    (pc = "merge" /\ g = ScenarioGroup(ScenarioSlots)) =>
        /\ \A j \in 0..19 : out[j + 1].mid_stdev = NaN
        /\ \A j \in 20..24 : out[j + 1].mid_stdev = 0

C4_Witness ==
    /\ pc = "merge"
    /\ g = ScenarioGroup(ScenarioSlots)
    /\ Len(out) = 25
    /\ window = 20

\* C5: a buffer never holds more than window_size values, and appending a valid
\* value to a full buffer evicts exactly the oldest entry
C5_BufferBounded ==
    /\ [](\A c \in ColSet : Len(dq[c]) <= window)
    /\ [][(pc = "roll" /\ i < Len(g)) =>
            \A c \in ColSet :
                (g[i + 1][c] # NaN /\ Len(dq[c]) = window) =>
                    dq'[c] = Tail(dq[c]) \o <<g[i + 1][c]>>]_vars

C5_Witness ==
    /\ pc = "roll"
    /\ \E c \in ColSet :
          /\ Len(ValidValues(c, i)) > window
          /\ Len(dq[c]) = window
          /\ dq[c][window] = g[i][c]

\* C9: a slot whose value for a column is missing leaves that column's buffer
\* unchanged, and a buffer is a function of its own column alone: it always
\* holds the last (at most window_size) valid values of that column
C9_BufferFrame ==
    /\ [](InEngine => \A c \in ColSet : dq[c] = LastN(ValidValues(c, i), window))
    /\ [][(pc = "roll" /\ i < Len(g)) =>
            \A c \in ColSet : g[i + 1][c] = NaN => dq'[c] = dq[c]]_vars

C9_Witness ==
    /\ pc = "roll"
    /\ i >= 2
    /\ \E c, d \in ColSet :
          /\ g[i][c] = NaN /\ dq[c] # <<>>
          /\ g[i][d] # NaN /\ dq[d][Len(dq[d])] = g[i][d]

----------------------------------------------------------------------------
(* Vocabulary of the properties of compute_all *)

\* _expand_to_full_grid has returned
Expanded == pc \in {"groups", "enter", "roll", "merge", "done"} \/ (pc = "raised" /\ price_df # <<>>)

Present == {price_df[k].security_id : k \in 1..Len(price_df)}

\* the calendar instants of the range
Instants == {t \in start..end : (t - start) % Hour = 0}

Quote(r) == [bid |-> r.bid, mid |-> r.mid, ask |-> r.ask]
MissingQuote == [bid |-> NaN, mid |-> NaN, ask |-> NaN]

\* the observations of security e at instant t
ObsAt(e, t) ==
    {Quote(price_df[k]) : k \in {n \in 1..Len(price_df) :
                                    price_df[n].security_id = e /\ price_df[n].snap_time = t}}

\* C6: for start <= end the grid of every security of the input has exactly one
\* row per hourly instant start, start+1h, ... up to end, in order; a row
\* carries the observation made at exactly that instant, or missing values;
\* nothing else is in the grid
C6_FullGrid ==
    (Expanded /\ start <= end) =>
        /\ \A k \in 1..Len(full) : full[k].security_id \in Present
        /\ \A e \in Present :
              LET rows == GroupRows(full, e)
              IN /\ Len(rows) = Cardinality(Instants)
                 /\ \A k \in 1..Len(rows) :
                       /\ rows[k].snap_time = start + (k - 1) * Hour
                       /\ rows[k].snap_time <= end
                       /\ IF ObsAt(e, rows[k].snap_time) = {}
                          THEN Quote(rows[k]) = MissingQuote
                          ELSE ObsAt(e, rows[k].snap_time) = {Quote(rows[k])}

\* a security with an observation on the grid and one after the range, and a
\* security with no observation in the range at all
C6_Witness ==
    /\ pc = "groups"
    /\ start < end
    /\ full # <<>>
    /\ \E e \in Present :
          /\ \E t \in Instants : ObsAt(e, t) # {}
          /\ \E t \in (end + 1)..MaxEnd : ObsAt(e, t) # {}
          /\ \E t \in (start..end) \ Instants : ObsAt(e, t) # {}
    /\ \E e \in Present : \A t \in start..end : ObsAt(e, t) = {}

\* C7 as stated: with end < start the run ends in calendar expansion with an
\* InvalidRangeError, before any statistic, and sets no result
C7_InvalidRange_AsStated ==
    (end < start /\ pc \notin {"call", "expand"}) =>
        /\ pc = "raised"
        /\ err = "InvalidRangeError"
        /\ statsDone = 0
        /\ ~result_df.set

\* C7 amended: with end < start calendar expansion raises no range error and
\* returns an empty grid; no statistic is computed, the run ends with
\* the ValueError of pd.concat on an empty list, and sets no result
C7_InvalidRange ==
    end < start =>
        /\ pc \in {"call", "expand", "groups", "raised"}
        /\ pc = "groups" => (full = <<>> /\ todo = <<>>)
        /\ pc = "raised" => err = "ValueError"
        /\ pc # "raised" => err = "none"
        /\ statsDone = 0
        /\ results = <<>>
        /\ ~result_df.set

C7_Witness ==
    /\ end < start
    /\ price_df # <<>>
    /\ pc = "raised"
    /\ err = "ValueError"

\* the statistics one security gets from its own observations alone
OwnObs(e) == GroupRows(price_df, e)
OwnGrid(e) == ExpandGroup(OwnObs(e), e, HourlyIndex(start, end))
OwnValid(e, c, j) == SelectSeq([k \in 1..j |-> OwnGrid(e)[k][c]], LAMBDA v : v # NaN)
OwnStat(e, c, j) ==
    IF Len(OwnValid(e, c, j)) >= window
    THEN Stdev(LastN(OwnValid(e, c, j), window))
    ELSE NaN
OwnResult(e) ==
    [k \in 1..Len(OwnGrid(e)) |->
        [snap_time |-> OwnGrid(e)[k].snap_time,
         bid |-> OwnGrid(e)[k].bid, mid |-> OwnGrid(e)[k].mid, ask |-> OwnGrid(e)[k].ask,
         bid_stdev |-> OwnStat(e, "bid", k - 1),
         mid_stdev |-> OwnStat(e, "mid", k - 1),
         ask_stdev |-> OwnStat(e, "ask", k - 1)]]

\* a result table without the security_id column
Anonymous(rows) ==
    [k \in 1..Len(rows) |->
        [snap_time |-> rows[k].snap_time,
         bid |-> rows[k].bid, mid |-> rows[k].mid, ask |-> rows[k].ask,
         bid_stdev |-> rows[k].bid_stdev, mid_stdev |-> rows[k].mid_stdev,
         ask_stdev |-> rows[k].ask_stdev]]

ResultOf(e) == Anonymous(GroupRows(result_df.rows, e))
SameObs(e, f) == \A t \in 0..MaxEnd : ObsAt(e, t) = ObsAt(f, t)

\* C8: the result records of a security are those its own observations and the
\* range give, whatever the other securities and the order of the input; two
\* securities with the same observations get the same records
C8_Independent ==
    pc = "done" =>
        /\ \A e \in Present : ResultOf(e) = OwnResult(e)
        /\ \A e, f \in Present : SameObs(e, f) => ResultOf(e) = ResultOf(f)

\* two securities with the same observations, both with an emitted statistic
C8_Witness ==
    /\ pc = "done"
    /\ Present = Entities
    /\ SameObs(1, 2)
    /\ \E k \in 1..Len(result_df.rows) :
          result_df.rows[k].security_id = 2 /\ result_df.rows[k].mid_stdev # NaN

----------------------------------------------------------------------------
(* PriceConverter: one row of price_df followed through calculate_converted_prices *)

NullStr == "<NA>"              \* a missing string or boolean (None / NaN)

\* str.strip() on the currency pairs of the inputs
Strip(str) == IF str \in {" ", "  "} THEN "" ELSE str

CcyPairs == {NullStr, "", "  ", "EURUSD", "GBPUSD", "XXXYYY"}
PriceTimes == {2, 5}

\* ccy_df: one row per known pair; the EURUSD row takes every combination
CcyTables ==
    { { [ccy_pair |-> "EURUSD", convert_price |-> cp, conversion_factor |-> cf],
        [ccy_pair |-> "GBPUSD", convert_price |-> "False", conversion_factor |-> NaN] }
      : <<cp, cf>> \in {NullStr, "True", "False"} \X {NaN, 2} }

SpotCandidates ==
    { [ccy_pair |-> "EURUSD", spot_timestamp |-> 0, spot_mid_rate |-> 3],
      [ccy_pair |-> "EURUSD", spot_timestamp |-> 2, spot_mid_rate |-> NaN],
      [ccy_pair |-> "EURUSD", spot_timestamp |-> 3, spot_mid_rate |-> 4],
      [ccy_pair |-> "EURUSD", spot_timestamp |-> 5, spot_mid_rate |-> 6],
      [ccy_pair |-> "EURUSD", spot_timestamp |-> 6, spot_mid_rate |-> 8],
      [ccy_pair |-> "GBPUSD", spot_timestamp |-> 4, spot_mid_rate |-> 7] }

\* price_df.merge(ccy_df[...], on='ccy_pair', how='left'): lines 27-33
MergeConversionFactors(r, ccy) ==
    IF \E x \in ccy : x.ccy_pair = r.ccy_pair
    THEN LET x == CHOOSE x \in ccy : x.ccy_pair = r.ccy_pair
         IN [r EXCEPT !.convert_price = x.convert_price,
                      !.conversion_factor = x.conversion_factor]
    ELSE [r EXCEPT !.convert_price = NullStr, !.conversion_factor = NaN]

\* pd.merge_asof(..., by='ccy_pair', direction='backward'): lines 35-49; the
\* latest spot row of the same pair not after the price, or nothing
GetLatestSpotRates(r, spot) ==
    LET cand == {x \in spot : x.ccy_pair = r.ccy_pair
                                /\ x.spot_timestamp <= r.price_timestamp}
    IN IF cand = {}
       THEN [r EXCEPT !.spot_timestamp = NaN, !.spot_mid_rate = NaN]
       ELSE LET x == CHOOSE x \in cand :
                         \A y \in cand : y.spot_timestamp <= x.spot_timestamp
            IN [r EXCEPT !.spot_timestamp = x.spot_timestamp,
                         !.spot_mid_rate = x.spot_mid_rate]

\* price_timestamp - spot_timestamp (NaT when no spot row was attached)
TimeDiff(r) ==
    IF r.spot_timestamp = NaN THEN NaN ELSE r.price_timestamp - r.spot_timestamp

\* lines 54-55
FlagStep1(r) == IF r.price = NaN THEN [r EXCEPT !.remark = "Missing price"] ELSE r

\* lines 57-64
FlagStep2(r) ==
    IF /\ r.remark = ""
       /\ r.convert_price = NullStr
       /\ r.conversion_factor = NaN
       /\ r.ccy_pair # NullStr
    THEN [r EXCEPT !.remark = "ccy_pair not found in ccy_df"] ELSE r

\* lines 66-70
FlagStep3(r) ==
    IF r.ccy_pair = NullStr \/ (r.ccy_pair # NullStr /\ Strip(r.ccy_pair) = "")
    THEN [r EXCEPT !.remark = "Missing or invalid ccy_pair"] ELSE r

\* lines 72-78
FlagStep4(r) ==
    IF r.convert_price = "True" /\ r.conversion_factor = NaN /\ r.remark = ""
    THEN [r EXCEPT !.remark = "Missing conversion_factor"] ELSE r

\* lines 80-85
FlagStep5(r) ==
    IF r.convert_price = "False" /\ r.remark = ""
    THEN [r EXCEPT !.remark = "Conversion not required"] ELSE r

\* lines 87-94
FlagStep6(r) ==
    IF /\ r.convert_price = "True"
       /\ r.conversion_factor # NaN
       /\ r.spot_mid_rate = NaN
       /\ r.remark = ""
    THEN [r EXCEPT !.remark = "Missing spot_mid_rate"] ELSE r

\* lines 96-105 (NaT > 1h is False)
FlagStep7(r) ==
    IF /\ r.remark = ""
       /\ r.convert_price = "True"
       /\ r.conversion_factor # NaN
       /\ r.spot_mid_rate # NaN
       /\ TimeDiff(r) # NaN /\ TimeDiff(r) > Hour
    THEN [r EXCEPT !.remark = "Spot rate too old (>1hr)"] ELSE r

\* _flag_conversion_issues: lines 51-107
FlagConversionIssues(r) ==
    FlagStep7(FlagStep6(FlagStep5(FlagStep4(FlagStep3(FlagStep2(FlagStep1(r)))))))

\* cond_valid without its test of the remark
CondValidIgnoringRemark(r) ==
    /\ r.convert_price = "True"
    /\ r.conversion_factor # NaN
    /\ r.spot_mid_rate # NaN
    /\ TimeDiff(r) # NaN /\ 0 <= TimeDiff(r) /\ TimeDiff(r) <= Hour

\* cond_valid: lines 125-132 (NaT.between(...) is False)
CondValid(r) ==
    /\ r.remark = ""
    /\ r.convert_price = "True"
    /\ r.conversion_factor # NaN
    /\ r.spot_mid_rate # NaN
    /\ TimeDiff(r) # NaN /\ 0 <= TimeDiff(r) /\ TimeDiff(r) <= Hour

\* price / conversion_factor + spot_mid_rate (prices are multiples of the
\* factor; a missing price gives a missing result)
ConvertedPrice(r) ==
    IF r.price = NaN THEN NaN ELSE r.price \div r.conversion_factor + r.spot_mid_rate

\* lines 134-139
ConvertRow(r) ==
    IF CondValid(r)
    THEN [r EXCEPT !.converted_price = ConvertedPrice(r), !.remark = "Converted"]
    ELSE r

\* Step 1 of calculate_converted_prices: line 112
ConvMergeFactors ==
    /\ pc = "conv_factors"
    /\ crow' = MergeConversionFactors(crow, ccy_df)
    /\ pc' = "conv_spot"
    /\ UNCHANGED <<ccy_df, spot_rate_df, stdevVars>>

\* Step 2: line 115
ConvSpotRates ==
    /\ pc = "conv_spot"
    /\ crow' = GetLatestSpotRates(crow, spot_rate_df)
    /\ pc' = "conv_init"
    /\ UNCHANGED <<ccy_df, spot_rate_df, stdevVars>>

\* Step 3: lines 118-119
ConvInitColumns ==
    /\ pc = "conv_init"
    /\ crow' = [crow EXCEPT !.remark = "", !.converted_price = crow.price]
    /\ pc' = "conv_flag"
    /\ UNCHANGED <<ccy_df, spot_rate_df, stdevVars>>

\* Step 4: line 122 (flagged records the remark the flagging left)
ConvFlag ==
    /\ pc = "conv_flag"
    /\ crow' = [FlagConversionIssues(crow) EXCEPT !.flagged = FlagConversionIssues(crow).remark]
    /\ pc' = "conv_convert"
    /\ UNCHANGED <<ccy_df, spot_rate_df, stdevVars>>

\* Step 5: lines 125-144
ConvConvert ==
    /\ pc = "conv_convert"
    /\ crow' = ConvertRow(crow)
    /\ pc' = "conv_done"
    /\ UNCHANGED <<ccy_df, spot_rate_df, stdevVars>>

\* calculate_converted_prices() on a loaded converter
InitConv ==
    /\ pc = "conv_factors"
    /\ \E ts \in PriceTimes, cp \in CcyPairs, p \in {NaN, 10} :
          crow = [stage |-> "row", price_timestamp |-> ts, ccy_pair |-> cp, price |-> p,
                  convert_price |-> NullStr, conversion_factor |-> NaN,
                  spot_timestamp |-> NaN, spot_mid_rate |-> NaN,
                  remark |-> NullStr, converted_price |-> NaN, flagged |-> NullStr]
    /\ ccy_df \in CcyTables
    /\ spot_rate_df \in SUBSET SpotCandidates
    /\ price_df = <<>> /\ start = 0 /\ end = 0 /\ window = 1
    /\ full = <<>> /\ todo = <<>> /\ g = <<>> /\ i = 0
    /\ dq = NoDeques /\ dqSlots = NoDeques /\ arrs = NoDeques /\ outputs = NoDeques
    /\ out = <<>> /\ results = <<>> /\ result_df = NoResult
    /\ err = "none" /\ statsDone = 0

NextConv ==
    \/ ConvMergeFactors
    \/ ConvSpotRates
    \/ ConvInitColumns
    \/ ConvFlag
    \/ ConvConvert

SpecConv == InitConv /\ [][NextConv]_vars

\* C10: a row not marked 'Converted' keeps its original price as
\* converted_price; a row is marked 'Converted' only if the flagging left its
\* remark empty, convert_price is true, the factor and the spot rate are
\* present and the spot is 0 to 1 hour (inclusive) older than the price; a
\* flagged row keeps its flag and is not converted
C10_ConvertedOnlyWhenValid ==
    pc = "conv_done" =>
        /\ crow.remark # "Converted" => crow.converted_price = crow.price
        /\ crow.remark = "Converted" =>
              /\ crow.flagged = ""
              /\ crow.convert_price = "True"
              /\ crow.conversion_factor # NaN
              /\ crow.spot_mid_rate # NaN
              /\ crow.spot_timestamp # NaN
              /\ crow.price_timestamp - crow.spot_timestamp \in 0..Hour
        /\ crow.flagged # "" =>
              /\ crow.remark = crow.flagged
              /\ crow.converted_price = crow.price

\* a converted row whose spot is exactly one hour old
C10_Witness ==
    /\ pc = "conv_done"
    /\ crow.remark = "Converted"
    /\ crow.price_timestamp - crow.spot_timestamp = Hour
    /\ crow.converted_price # crow.price

====
